---- MODULE Spec2Model ----
(***************************************************************************)
(* Dashboard sync procedure of ha-cleanup:                                 *)
(*   setup_10_consolidated_dashboards.py  (ConsolidatedDashboardManager)   *)
(*   setup_production_dashboards_comprehensive.py (same code, other        *)
(*   catalog).                                                             *)
(* main() -> run(): wait_for_grafana, get_all_dashboards,                   *)
(* delete_all_dashboards, deploy_dashboards, verify_dashboards.            *)
(*                                                                         *)
(* Strings are sequences of tokens; the token "PROD:" followed by the      *)
(* token " " is the text "PROD: ".  The Grafana endpoint is the            *)
(* environment: every HTTP call draws its outcome from Statuses, and only  *)
(* an HTTP 200 changes the remote set.                                     *)
(***************************************************************************)
EXTENDS Integers, Sequences, FiniteSets, TLC

VARIABLES
    pc,             \* position of main()/run()
    runNo,          \* which invocation of main() this is (1 or 2)
    files,          \* the catalog files on disk, by catalog position
    remote,         \* the endpoint's dashboard records [uid, title]
    elapsed,        \* time.time() - start_time inside wait_for_grafana
    existing,       \* truthiness of run()'s existing_dashboards
    dashboards,     \* delete_all_dashboards' local list (sequence of records)
    delIdx,         \* position of delete_all_dashboards' for loop
    delCount,       \* delete_all_dashboards' success_count
    depIdx,         \* position of deploy_dashboards' for loop
    depCount,       \* deploy_dashboards' success_count
    waitOk,         \* result of wait_for_grafana   ("none", "true", "false")
    deleteResult,   \* result of delete_all_dashboards
    deployResult,   \* result of deploy_dashboards
    verifyResult,   \* result of verify_dashboards
    runResult,      \* result of run()
    raised,         \* exception that left run(): "none", "KeyboardInterrupt", "Exception"
    exitCode,       \* what main() returned (-1: not yet)
    searches,       \* GET /api/search requests issued in this run
    deletes,        \* uids for which a DELETE was issued in this run
    deleted,        \* uids whose DELETE answered HTTP 200 in this run
    loads,          \* catalog entries load_dashboard_json was called for, this run
    posts,          \* POST requests issued per catalog entry, this run
    sent,           \* title carried by the POSTed document, per catalog entry
    accepted,       \* catalog entries whose POST answered HTTP 200, this run
    seenProd,       \* what verify_dashboards counted as production dashboards
    readySeen,      \* a health poll of this run answered 200 with database "ok"
    atStart,        \* remote set when this run started
    first,          \* how run 1 ended: [result, cleared, titles]
    searchFailed,   \* the search of run() itself got no HTTP 200 in this run
    verified        \* the list verify_dashboards got from its search

vars == <<pc, runNo, files, remote, elapsed, existing, dashboards, delIdx, delCount,
          depIdx, depCount, waitOk, deleteResult, deployResult, verifyResult,
          runResult, raised, exitCode, searches, deletes, deleted, loads, posts,
          sent, accepted, seenProd, readySeen, atStart, first, searchFailed, verified>>

----------------------------------------------------------------------------
(* Bounds of the model *)

\* number of catalog entries (the scripts hold 10 and 14)
CatalogSize == 2

\* largest number of dashboards on the endpoint before the first run
MaxExisting == 2

(* Program constants *)

\* wait_for_grafana(timeout = 60)
WaitTimeout == 60

\* time.sleep(2) between health polls
PollInterval == 2

\* session.get(.../api/health, timeout=5)
HealthTimeout == 5

----------------------------------------------------------------------------
(* Strings *)

\* the literal "PROD: " of f"PROD: {title}"
PREFIX == <<"PROD:", " ">>

\* the literal "PROD:" that verify_dashboards looks for
MARKER == <<"PROD:">>

StartsWith(s, p) ==
    /\ Len(s) >= Len(p)
    /\ SubSeq(s, 1, Len(p)) = p

\* Python's  p in s  on strings
Contains(s, p) ==
    \E i \in 1..(Len(s) - Len(p) + 1) : SubSeq(s, i, i + Len(p) - 1) = p

\* the prefix put on a title that already carries it
RelabelTwice(title) == PREFIX \o (PREFIX \o title)

\* f"PROD: {dashboard_data['title']}"
Relabel(title) == PREFIX \o title

----------------------------------------------------------------------------
(* The catalog and its files *)

\* self.dashboards, in insertion order
Catalog == 1..CatalogSize

\* the title each catalog file would carry on its own
EntryName == <<"d1", "d2", "d3", "d4", "d5">>

\* what a catalog path can hold: no file, text that is not JSON, a falsy JSON
\* value such as {}, an object without "title", an object with a title (its own,
\* or one shared with other catalog files)
FileChoices(i) ==
    { [kind |-> k, title |-> << >>] : k \in {"absent", "malformed", "empty", "untitled"} }
    \cup { [kind |-> "titled", title |-> t] : t \in { <<EntryName[i]>>, <<"s">> } }

\* titles of dashboards that may be on the endpoint before the first run
OldTitles == << <<"PROD:", " ", "x">>, <<"x", "PROD:", "y">>, <<"old">> >>

\* uids the endpoint can hand out: enough for the old records and two runs
MaxUid == Len(OldTitles) + 2 * CatalogSize

----------------------------------------------------------------------------
(* HTTP outcomes *)

\* status of a DELETE or POST: 200, another status, or a transport error
Statuses == {"200", "500", "error"}

HealthResponses ==
    { [status |-> "200", database |-> "ok"],
      [status |-> "200", database |-> "starting"],
      [status |-> "500", database |-> "ok"],
      [status |-> "error", database |-> "ok"] }

\* answers to GET /api/search: the record list, a 200 whose JSON body is a
\* non-empty object instead of a list of records, another status, a transport error
SearchResponses == {"200", "200-object", "500", "error"}

----------------------------------------------------------------------------
(* Pure parts of the code *)

\* ready on any HTTP 200, whatever the body says
HealthReadyAnyOk(resp) == resp.status = "200"

\* wait_for_grafana: the poll that ends the wait
HealthReady(resp) == resp.status = "200" /\ resp.database = "ok"

\* wait_for_grafana: while time.time() - start_time < timeout
WaitLoopCondition(e) == e < WaitTimeout

\* records in the order the endpoint lists them (by uid)
ListOf(S) ==
    [ i \in 1..Cardinality(S) |->
        CHOOSE r \in S : Cardinality({ q \in S : q.uid < r.uid }) = i - 1 ]

\* the body of any answer parsed, whatever its status: an error answer is a
\* JSON object with a message
GetAllDashboardsAnyStatus(resp, rem) ==
    IF resp = "200" THEN [shape |-> "list", items |-> ListOf(rem)]
    ELSE IF resp \in {"200-object", "500"} THEN [shape |-> "object", items |-> << >>]
    ELSE [shape |-> "list", items |-> << >>]

\* get_all_dashboards: response.json() on 200, [] otherwise
GetAllDashboards(resp, rem) ==
    IF resp = "200" THEN [shape |-> "list", items |-> ListOf(rem)]
    ELSE IF resp = "200-object" THEN [shape |-> "object", items |-> << >>]
    ELSE [shape |-> "list", items |-> << >>]

\* Python truth value of what get_all_dashboards returned
Truthy(ds) == ds.shape = "object" \/ Len(ds.items) > 0

\* delete_dashboard: True on HTTP 200
DeleteDashboard(status) == status = "200"

\* success as soon as one record went
DeleteAllResultAny(success_count, n) == success_count >= 1

\* delete_all_dashboards: return success_count == len(dashboards)
DeleteAllResult(success_count, n) == success_count = n

\* load_dashboard_json: None, or the document with its title relabelled
LoadDashboardJson(f) ==
    IF f.kind = "absent" THEN [none |-> TRUE, empty |-> FALSE, hasTitle |-> FALSE, title |-> << >>]
    ELSE IF f.kind = "malformed" THEN [none |-> TRUE, empty |-> FALSE, hasTitle |-> FALSE, title |-> << >>]
    ELSE IF f.kind = "empty" THEN [none |-> FALSE, empty |-> TRUE, hasTitle |-> FALSE, title |-> << >>]
    ELSE IF f.kind = "untitled" THEN [none |-> FALSE, empty |-> FALSE, hasTitle |-> FALSE, title |-> << >>]
    ELSE [none |-> FALSE, empty |-> FALSE, hasTitle |-> TRUE, title |-> Relabel(f.title)]

\* the check on the loaded document left out
SkippedNever(d) == FALSE

\* deploy_dashboards: if not dashboard_data: continue
Skipped(d) == d.none \/ d.empty

\* any answered request taken for a success
CreateDashboardAnyResponse(status) == status # "error"

\* create_dashboard: True on HTTP 200
CreateDashboard(status) == status = "200"

\* success as soon as one entry went
DeployResultAny(success_count, total_count) == success_count >= 1

\* deploy_dashboards: return success_count == total_count
DeployResult(success_count, total_count) == success_count = total_count

\* verify_dashboards: [d for d in dashboards if "PROD:" in d.get("title", "")]
ProdDashboards(items) ==
    { i \in 1..Len(items) : Contains(items[i].title, MARKER) }

\* every listed record counted, prefixed or not
VerifyResultUnfiltered(items) == Len(items) >= CatalogSize

\* verify_dashboards: False on an empty list, else len(prod) >= len(self.dashboards)
VerifyResult(items) ==
    IF Len(items) = 0 THEN FALSE
    ELSE Cardinality(ProdDashboards(items)) >= CatalogSize

\* run() giving up when a deletion failed
RunAfterDeleteAbort(deleted_all) == deleted_all

\* run(): if not self.delete_all_dashboards(): print a warning, and go on
RunAfterDelete(deleted_all) == TRUE

\* run() going on to the verification after a failed deployment
RunAfterDeployIgnore(deployed) == TRUE

\* run(): if not self.deploy_dashboards(): return False
RunAfterDeploy(deployed) == deployed

\* the return 1 of the failure branch left out
MainExitAlwaysZero(success) == 0

\* main(): exit code after run() returned
MainExit(success) == IF success = "true" THEN 0 ELSE 1

\* main(): exit code of the except KeyboardInterrupt / except Exception handlers
MainExcept(kind) == 1

----------------------------------------------------------------------------
(* The endpoint *)

FreshUid(rem) ==
    CHOOSE u \in 1..MaxUid :
        /\ \A r \in rem : r.uid # u
        /\ \A v \in 1..(u - 1) : \E r \in rem : r.uid = v

\* POST /api/dashboards/db {dashboard, overwrite: true, folderId: 0} answered 200:
\* a dashboard of that title in the folder is overwritten, else one is created
StoreDashboard(rem, d) ==
    IF \E r \in rem : r.title = d.title THEN rem
    ELSE rem \cup { [uid |-> FreshUid(rem), title |-> d.title] }

\* DELETE /api/dashboards/uid/{uid} answered 200
RemoveDashboard(rem, uid) == { r \in rem : r.uid # uid }

PrefixedTitles(rem) == { r.title : r \in { q \in rem : StartsWith(q.title, PREFIX) } }

----------------------------------------------------------------------------
(* Initial state: main() has built the manager and run() is about to poll *)

NoPosts == [e \in Catalog |-> 0]
NoneSent == [e \in Catalog |-> [hasTitle |-> FALSE, title |-> << >>]]
NoFirst == [result |-> "none", cleared |-> FALSE, titles |-> {}]

RunStart ==
    /\ pc = "wait"
    /\ elapsed = 0
    /\ existing = FALSE
    /\ dashboards = << >>
    /\ delIdx = 1
    /\ delCount = 0
    /\ depIdx = 1
    /\ depCount = 0
    /\ waitOk = "none"
    /\ deleteResult = "none"
    /\ deployResult = "none"
    /\ verifyResult = "none"
    /\ runResult = "none"
    /\ raised = "none"
    /\ exitCode = -1
    /\ searches = 0
    /\ deletes = {}
    /\ deleted = {}
    /\ loads = {}
    /\ posts = NoPosts
    /\ sent = NoneSent
    /\ accepted = {}
    /\ seenProd = -1
    /\ readySeen = FALSE
    /\ searchFailed = FALSE
    /\ verified = << >>

Init ==
    /\ RunStart
    /\ runNo = 1
    /\ files \in [Catalog -> UNION { FileChoices(i) : i \in Catalog }]
    /\ \A i \in Catalog : files[i] \in FileChoices(i)
    /\ \E S \in SUBSET (1..Len(OldTitles)) :
          /\ Cardinality(S) <= MaxExisting
          /\ remote = { [uid |-> i, title |-> OldTitles[i]] : i \in S }
    /\ atStart = remote
    /\ first = NoFirst

Bool(b) == IF b THEN "true" ELSE "false"

----------------------------------------------------------------------------
(* wait_for_grafana *)

\* one iteration of the while loop: GET /api/health, then return True or sleep
WaitPoll ==
    /\ pc = "wait"
    /\ WaitLoopCondition(elapsed)
    /\ \E resp \in HealthResponses, took \in {0, HealthTimeout} :
          /\ readySeen' = (readySeen \/ (resp.status = "200" /\ resp.database = "ok"))
          /\ IF HealthReady(resp)
             THEN /\ waitOk' = "true"
                  /\ pc' = "enumerate"
                  /\ elapsed' = 0
             ELSE /\ elapsed' = elapsed + took + PollInterval
                  /\ UNCHANGED <<waitOk, pc>>
    /\ UNCHANGED <<runNo, files, remote, existing, dashboards, delIdx, delCount,
                   depIdx, depCount, deleteResult, deployResult, verifyResult,
                   runResult, raised, exitCode, searches, deletes, deleted, loads,
                   posts, sent, accepted, seenProd, atStart, first, searchFailed, verified>>

\* the loop condition fails: return False, and run() returns False
WaitTimedOut ==
    /\ pc = "wait"
    /\ ~WaitLoopCondition(elapsed)
    /\ waitOk' = "false"
    /\ runResult' = "false"
    /\ pc' = "returned"
    /\ elapsed' = 0
    /\ UNCHANGED <<runNo, files, remote, existing, dashboards, delIdx, delCount,
                   depIdx, depCount, deleteResult, deployResult, verifyResult,
                   raised, exitCode, searches, deletes, deleted, loads,
                   posts, sent, accepted, seenProd, readySeen, atStart, first, searchFailed, verified>>

----------------------------------------------------------------------------
(* run(): existing_dashboards = self.get_all_dashboards() and the branch on it *)

RunEnumerate ==
    /\ pc = "enumerate"
    /\ \E resp \in SearchResponses :
          LET ds == GetAllDashboards(resp, remote) IN
          /\ searches' = searches + 1
          /\ existing' = Truthy(ds)
          /\ searchFailed' = (resp \in {"500", "error"})
          /\ pc' = IF Truthy(ds) THEN "delete_all" ELSE "deploy"
    /\ UNCHANGED <<runNo, files, remote, elapsed, dashboards, delIdx, delCount,
                   depIdx, depCount, waitOk, deleteResult, deployResult, verifyResult,
                   runResult, raised, exitCode, deletes, deleted, loads,
                   posts, sent, accepted, seenProd, readySeen, atStart, first, verified>>

----------------------------------------------------------------------------
(* delete_all_dashboards *)

\* its own enumeration: an empty list returns True at once; a body that is no
\* list of records makes dashboard["uid"] raise, which nothing below main() catches
DeleteAllEnumerate ==
    /\ pc = "delete_all"
    /\ \E resp \in SearchResponses :
          LET ds == GetAllDashboards(resp, remote) IN
          /\ searches' = searches + 1
          /\ IF ~Truthy(ds)
             THEN /\ deleteResult' = "true"
                  /\ pc' = "deploy"
                  /\ UNCHANGED <<dashboards, raised, exitCode>>
             ELSE IF ds.shape = "object"
             THEN /\ raised' = "Exception"
                  /\ exitCode' = MainExcept("Exception")
                  /\ pc' = "exited"
                  /\ UNCHANGED <<dashboards, deleteResult>>
             ELSE /\ dashboards' = ds.items
                  /\ pc' = "delete_loop"
                  /\ UNCHANGED <<deleteResult, raised, exitCode>>
    /\ UNCHANGED <<runNo, files, remote, elapsed, existing, delIdx, delCount,
                   depIdx, depCount, waitOk, deployResult, verifyResult,
                   runResult, deletes, deleted, loads,
                   posts, sent, accepted, seenProd, readySeen, atStart, first, searchFailed, verified>>

\* one iteration of  for dashboard in dashboards: delete_dashboard(dashboard["uid"])
DeleteOne ==
    /\ pc = "delete_loop"
    /\ delIdx <= Len(dashboards)
    /\ \E status \in Statuses :
          LET uid == dashboards[delIdx].uid IN
          /\ deletes' = deletes \cup {uid}
          /\ remote' = IF status = "200" THEN RemoveDashboard(remote, uid) ELSE remote
          /\ deleted' = IF status = "200" THEN deleted \cup {uid} ELSE deleted
          /\ delCount' = IF DeleteDashboard(status) THEN delCount + 1 ELSE delCount
    /\ delIdx' = delIdx + 1
    /\ UNCHANGED <<pc, runNo, files, elapsed, existing, dashboards,
                   depIdx, depCount, waitOk, deleteResult, deployResult, verifyResult,
                   runResult, raised, exitCode, searches, loads,
                   posts, sent, accepted, seenProd, readySeen, atStart, first, searchFailed, verified>>

\* the loop is over: return success_count == len(dashboards); run() warns on
\* False and goes on to time.sleep(2) and the deployment
DeleteAllReturn ==
    /\ pc = "delete_loop"
    /\ delIdx > Len(dashboards)
    /\ LET ok == DeleteAllResult(delCount, Len(dashboards)) IN
          /\ deleteResult' = Bool(ok)
          /\ IF RunAfterDelete(ok)
             THEN /\ pc' = "deploy"
                  /\ UNCHANGED runResult
             ELSE /\ pc' = "returned"
                  /\ runResult' = "false"
    /\ UNCHANGED <<runNo, files, remote, elapsed, existing, dashboards, delIdx, delCount,
                   depIdx, depCount, waitOk, deployResult, verifyResult,
                   raised, exitCode, searches, deletes, deleted, loads,
                   posts, sent, accepted, seenProd, readySeen, atStart, first, searchFailed, verified>>

----------------------------------------------------------------------------
(* deploy_dashboards *)

\* one iteration of  for dashboard_key, file_path in self.dashboards.items():
\* load_dashboard_json, then create_dashboard unless the load gave nothing.
\* The relabelled document lives in a local of the iteration; reread is TRUE
\* because the next run reads the file again.
DeployStep(reread) ==
    /\ pc = "deploy"
    /\ depIdx <= CatalogSize
    /\ LET d == LoadDashboardJson(files[depIdx]) IN
          /\ loads' = loads \cup {depIdx}
          /\ files' = IF reread \/ ~d.hasTitle THEN files
                      ELSE [files EXCEPT ![depIdx].title = d.title]
          /\ IF Skipped(d)
             THEN UNCHANGED <<remote, posts, sent, accepted, depCount>>
             ELSE \E status \in Statuses :
                    /\ posts' = [posts EXCEPT ![depIdx] = @ + 1]
                    /\ sent' = [sent EXCEPT ![depIdx] =
                                   [hasTitle |-> d.hasTitle, title |-> d.title]]
                    /\ remote' = IF status = "200" THEN StoreDashboard(remote, d)
                                 ELSE remote
                    /\ accepted' = IF status = "200" THEN accepted \cup {depIdx}
                                   ELSE accepted
                    /\ depCount' = IF CreateDashboard(status) THEN depCount + 1
                                   ELSE depCount
    /\ depIdx' = depIdx + 1
    /\ UNCHANGED <<pc, runNo, elapsed, existing, dashboards, delIdx, delCount,
                   waitOk, deleteResult, deployResult, verifyResult,
                   runResult, raised, exitCode, searches, deletes, deleted,
                   seenProd, readySeen, atStart, first, searchFailed, verified>>

\* the relabelled document kept for the next run instead of read again
DeployOneCached == DeployStep(FALSE)

DeployOne == DeployStep(TRUE)

\* the loop is over: return success_count == total_count; on False run() returns False
DeployReturn ==
    /\ pc = "deploy"
    /\ depIdx > CatalogSize
    /\ LET ok == DeployResult(depCount, CatalogSize) IN
          /\ deployResult' = Bool(ok)
          /\ IF RunAfterDeploy(ok)
             THEN /\ pc' = "verify"
                  /\ UNCHANGED runResult
             ELSE /\ pc' = "returned"
                  /\ runResult' = "false"
    /\ UNCHANGED <<runNo, files, remote, elapsed, existing, dashboards, delIdx, delCount,
                   depIdx, depCount, waitOk, deleteResult, verifyResult,
                   raised, exitCode, searches, deletes, deleted, loads,
                   posts, sent, accepted, seenProd, readySeen, atStart, first, searchFailed, verified>>

----------------------------------------------------------------------------
(* verify_dashboards, and the end of run() *)

\* a body that is no list of records makes d.get raise out of run()
Verify ==
    /\ pc = "verify"
    /\ \E resp \in SearchResponses :
          LET ds == GetAllDashboards(resp, remote) IN
          /\ searches' = searches + 1
          /\ verified' = ds.items
          /\ IF ds.shape = "object"
             THEN /\ raised' = "Exception"
                  /\ exitCode' = MainExcept("Exception")
                  /\ pc' = "exited"
                  /\ UNCHANGED <<verifyResult, runResult, seenProd>>
             ELSE /\ verifyResult' = Bool(VerifyResult(ds.items))
                  /\ runResult' = Bool(VerifyResult(ds.items))
                  /\ seenProd' = Cardinality(ProdDashboards(ds.items))
                  /\ pc' = "returned"
                  /\ UNCHANGED <<raised, exitCode>>
    /\ UNCHANGED <<runNo, files, remote, elapsed, existing, dashboards, delIdx, delCount,
                   depIdx, depCount, waitOk, deleteResult, deployResult,
                   deletes, deleted, loads,
                   posts, sent, accepted, readySeen, atStart, first, searchFailed>>

----------------------------------------------------------------------------
(* main() *)

\* run() returned: return 0 on success, 1 otherwise
MainReturn ==
    /\ pc = "returned"
    /\ exitCode' = MainExit(runResult)
    /\ pc' = "exited"
    /\ UNCHANGED <<runNo, files, remote, elapsed, existing, dashboards, delIdx, delCount,
                   depIdx, depCount, waitOk, deleteResult, deployResult, verifyResult,
                   runResult, raised, searches, deletes, deleted, loads,
                   posts, sent, accepted, seenProd, readySeen, atStart, first, searchFailed, verified>>

InRun == pc \in {"wait", "enumerate", "delete_all", "delete_loop", "deploy", "verify"}

\* Ctrl-C while run() executes: no wrapper below main() catches KeyboardInterrupt
Interrupt ==
    /\ InRun
    /\ raised' = "KeyboardInterrupt"
    /\ exitCode' = MainExcept("KeyboardInterrupt")
    /\ pc' = "exited"
    /\ UNCHANGED <<runNo, files, remote, elapsed, existing, dashboards, delIdx, delCount,
                   depIdx, depCount, waitOk, deleteResult, deployResult, verifyResult,
                   runResult, searches, deletes, deleted, loads,
                   posts, sent, accepted, seenProd, readySeen, atStart, first, searchFailed, verified>>

\* the script is started again on the same endpoint with the same files
Rerun ==
    /\ pc = "exited"
    /\ runNo = 1
    /\ runNo' = 2
    /\ first' = [result |-> runResult,
                 cleared |-> (\A r \in atStart : r.uid \in deleted),
                 titles |-> PrefixedTitles(remote)]
    /\ atStart' = remote
    /\ pc' = "wait"
    /\ elapsed' = 0
    /\ existing' = FALSE
    /\ dashboards' = << >>
    /\ delIdx' = 1
    /\ delCount' = 0
    /\ depIdx' = 1
    /\ depCount' = 0
    /\ waitOk' = "none"
    /\ deleteResult' = "none"
    /\ deployResult' = "none"
    /\ verifyResult' = "none"
    /\ runResult' = "none"
    /\ raised' = "none"
    /\ exitCode' = -1
    /\ searches' = 0
    /\ deletes' = {}
    /\ deleted' = {}
    /\ loads' = {}
    /\ posts' = NoPosts
    /\ sent' = NoneSent
    /\ accepted' = {}
    /\ seenProd' = -1
    /\ readySeen' = FALSE
    /\ searchFailed' = FALSE
    /\ verified' = << >>
    /\ UNCHANGED <<files, remote>>

Step ==
    \/ WaitPoll
    \/ WaitTimedOut
    \/ RunEnumerate
    \/ DeleteAllEnumerate
    \/ DeleteOne
    \/ DeleteAllReturn
    \/ DeployOne
    \/ DeployReturn
    \/ Verify
    \/ MainReturn

\* one invocation of the script, which the operator may interrupt
Next ==
    \/ Step
    \/ Interrupt

Spec == Init /\ [][Next]_vars

\* two uninterrupted invocations in succession
NextTwice ==
    \/ Step
    \/ Rerun

SpecTwice == Init /\ [][NextTwice]_vars

----------------------------------------------------------------------------
(* An endpoint that stops answering.  The health poll (timeout=5) and the POST
   (timeout=30) then end in a transport error, which Statuses and
   HealthResponses already hold; session.get(.../api/search) and
   session.delete(...) are called without a timeout and never return. *)

\* get_all_dashboards waits on a search that is never answered
SearchHangs ==
    /\ pc \in {"enumerate", "delete_all", "verify"}
    /\ searches' = searches + 1
    /\ pc' = "blocked"
    /\ UNCHANGED <<runNo, files, remote, elapsed, existing, dashboards, delIdx, delCount,
                   depIdx, depCount, waitOk, deleteResult, deployResult, verifyResult,
                   runResult, raised, exitCode, deletes, deleted, loads,
                   posts, sent, accepted, seenProd, readySeen, atStart, first,
                   searchFailed, verified>>

\* delete_dashboard waits on a DELETE that is never answered
DeleteHangs ==
    /\ pc = "delete_loop"
    /\ delIdx <= Len(dashboards)
    /\ deletes' = deletes \cup {dashboards[delIdx].uid}
    /\ pc' = "blocked"
    /\ UNCHANGED <<runNo, files, remote, elapsed, existing, dashboards, delIdx, delCount,
                   depIdx, depCount, waitOk, deleteResult, deployResult, verifyResult,
                   runResult, raised, exitCode, searches, deleted, loads,
                   posts, sent, accepted, seenProd, readySeen, atStart, first,
                   searchFailed, verified>>

\* one invocation nobody interrupts, on an endpoint that may stop answering
NextLive ==
    \/ Step
    \/ SearchHangs
    \/ DeleteHangs

\* the script is one sequential thread: whenever it has a step to take, it takes it
SpecLive == Init /\ [][NextLive]_vars /\ WF_vars(NextLive)

----------------------------------------------------------------------------
(* Properties *)

Finished == pc \in {"returned", "exited"} /\ raised = "none"

Succeeded == runResult = "true"

UidsOf(list) == { list[i].uid : i \in 1..Len(list) }

\* C1: while no health poll has answered 200 with database "ok", the run has
\* issued no search, no DELETE and no POST, and once run() has returned it has
\* returned failure.
C1_NoReadyNoRequests ==
    ~readySeen =>
        /\ searches = 0
        /\ deletes = {}
        /\ posts = NoPosts
        /\ remote = atStart
        /\ runResult # "true"
        /\ (Finished => runResult = "false" /\ waitOk = "false")

C1_Witness ==
    /\ Finished
    /\ ~readySeen
    /\ runResult = "false"
    /\ atStart # {}

\* C2: run() returns success only if a health poll reported ready, every catalog
\* entry was loaded and its POST answered 200, and verify_dashboards passed;
\* and a finished run in which one of the three failed has returned failure.
C2_SuccessOnlyIfAllSteps ==
    /\ Succeeded =>
          /\ readySeen
          /\ waitOk = "true"
          /\ loads = Catalog
          /\ \A e \in Catalog : files[e].kind \in {"untitled", "titled"} /\ posts[e] = 1
          /\ accepted = Catalog
          /\ verifyResult = "true"
    /\ (Finished /\ (~readySeen \/ accepted # Catalog \/ verifyResult # "true"))
          => runResult = "false"

C2_Witness ==
    /\ pc = "exited"
    /\ Succeeded
    /\ exitCode = 0

\* the remote set holds one record per catalog entry, titled "PROD: " + the
\* file's title, and nothing else
ExactlyCatalog ==
    /\ Cardinality(remote) = CatalogSize
    /\ \A r \in remote : StartsWith(r.title, PREFIX)
    /\ \A e \in Catalog : \E r \in remote :
          files[e].kind = "titled" /\ r.title = PREFIX \o files[e].title
    /\ \A r \in remote : \E e \in Catalog :
          files[e].kind = "titled" /\ r.title = PREFIX \o files[e].title

\* every record that was on the endpoint when the run started got a DELETE
\* answered 200
Cleared == \A r \in atStart : r.uid \in deleted

\* every catalog file is a dashboard with a title
AllTitled == \A e \in Catalog : files[e].kind = "titled"

\* no two catalog files carry the same title
DistinctTitles ==
    \A e, g \in Catalog : (e # g) => (files[e].title # files[g].title)

C4_TitlePrefixedOnce ==
    \A e \in Catalog :
        /\ posts[e] > 0 =>
              /\ files[e].kind \in {"untitled", "titled"}
              /\ sent[e].hasTitle = (files[e].kind = "titled")
              /\ sent[e].title = IF files[e].kind = "titled"
                                 THEN PREFIX \o files[e].title ELSE << >>
        /\ e \in accepted =>
              \E r \in remote :
                  r.title = IF files[e].kind = "titled"
                            THEN PREFIX \o files[e].title ELSE << >>

C4_Witness ==
    \E e \in Catalog :
        /\ e \in accepted
        /\ files[e].kind = "titled"
        /\ \E r \in remote : r.title = <<"PROD:", " ">> \o files[e].title

Unreadable(e) == files[e].kind \in {"absent", "malformed"}

\* C5: the iteration over a catalog entry whose file is absent or not JSON
\* issues no POST and leaves the remote set as it was, and when the deployment
\* step is over every other entry has been loaded and, unless its own load gave
\* nothing, POSTed once.
C5_UnreadableSkipped ==
    /\ [](\A e \in Catalog : Unreadable(e) => posts[e] = 0 /\ e \notin accepted)
    /\ [](deployResult # "none" =>
             /\ loads = Catalog
             /\ \A e \in Catalog :
                   files[e].kind \in {"untitled", "titled"} => posts[e] = 1)
    /\ [][(pc = "deploy" /\ depIdx <= CatalogSize /\ depIdx' = depIdx + 1
             /\ Unreadable(depIdx))
          => (remote' = remote /\ posts' = posts)]_vars

C5_Witness ==
    /\ deployResult # "none"
    /\ \E e, g \in Catalog :
          /\ e < g
          /\ Unreadable(e)
          /\ posts[e] = 0
          /\ g \in accepted

PrefixedCount == Cardinality({ r \in remote : StartsWith(r.title, PREFIX) })

\* C6: after a successful run at least CatalogSize remote records have a
\* title that starts with "PROD: " (already false when every catalog file has
\* a title).
C6_Original == (Succeeded /\ AllTitled) => PrefixedCount >= CatalogSize

BothRunsSucceeded ==
    /\ runNo = 2
    /\ pc = "exited"
    /\ Succeeded
    /\ first.result = "true"

C8_ExitCode ==
    pc = "exited" =>
        /\ exitCode \in {0, 1}
        /\ (exitCode = 0) = (raised = "none" /\ runResult = "true")
        /\ (raised # "none" => exitCode = 1)
        /\ (raised = "none" /\ runResult = "false" => exitCode = 1)

C8_Witness ==
    /\ pc = "exited"
    /\ raised = "Exception"
    /\ exitCode = 1

\* C9: delete_all_dashboards returns True exactly when every record of its
\* enumeration got a DELETE answered 200; on an empty enumeration that is True.
C9_DeleteAllResult ==
    deleteResult # "none" =>
        (deleteResult = "true") = (UidsOf(dashboards) \subseteq deleted)

C9_Witness ==
    /\ deleteResult = "true"
    /\ existing
    /\ dashboards = << >>
    /\ deletes = {}

\* C10: whatever the DELETEs answer, one is issued for every enumerated record,
\* and a run that got past the deletion step and finished has loaded every
\* catalog entry.
C10_DeletionNeverStopsRun ==
    /\ deleteResult # "none" => deletes = UidsOf(dashboards)
    /\ (Finished /\ waitOk = "true") => (loads = Catalog /\ deployResult # "none")
    /\ deleteResult = "false" => pc \in {"deploy", "verify", "returned", "exited"}
    /\ (deleteResult = "false" /\ pc = "returned") => deployResult # "none"

C10_Witness ==
    /\ Finished
    /\ deleteResult = "false"
    /\ Len(dashboards) >= 2
    /\ deleted = {}
    /\ deletes = UidsOf(dashboards)
    /\ loads = Catalog

SomePost == \E e \in Catalog : posts[e] > 0

\* C12: a failed readiness wait, deployment or verification makes run() return
\* failure with no later step executed: nothing is requested after a failed
\* wait, no search is issued and nothing changes on the endpoint after a failed
\* deployment, and once a POST has been issued no DELETE is issued and no
\* record is removed.
C12_FailureShortCircuits ==
    /\ [](waitOk = "false" =>
             /\ runResult = "false"
             /\ searches = 0
             /\ deletes = {}
             /\ loads = {}
             /\ deployResult = "none"
             /\ verifyResult = "none")
    /\ [](deployResult = "false" =>
             /\ runResult = "false"
             /\ pc \in {"returned", "exited"}
             /\ verifyResult = "none"
             /\ verified = << >>)
    /\ [](verifyResult = "false" => runResult = "false")
    /\ [][deployResult = "false" => (searches' = searches /\ remote' = remote)]_vars
    /\ [][SomePost => (deletes' = deletes /\ remote \subseteq remote')]_vars

C12_Witness ==
    /\ pc = "exited"
    /\ deployResult = "false"
    /\ exitCode = 1
    /\ deleted # {}
    /\ \E e \in accepted : \E r \in remote : r.title = sent[e].title

\* records of the list verify_dashboards got whose title contains "PROD: "
ListedWithPrefix == { i \in 1..Len(verified) : Contains(verified[i].title, PREFIX) }

\* C13: verify_dashboards returns True exactly when at least CatalogSize records
\* of the list it got have a title containing "PROD: " (already false when
\* every catalog file has a title).
C13_Original ==
    (verifyResult # "none" /\ AllTitled) =>
        ((verifyResult = "true") = (Cardinality(ListedWithPrefix) >= CatalogSize))

\* C14: every run terminates: in every state short of the end of main() the
\* script has a step to take, so no network call blocks forever.
C14_Original == (pc = "exited") \/ ENABLED NextLive

\* C15: when the search that run() issues before the deletion gets a
\* transport or HTTP error, get_all_dashboards hands back an empty list: the
\* run skips delete_all_dashboards, issues no DELETE, goes straight on to the
\* deployment of every catalog entry, and every record that was on the
\* endpoint stays.
C15_FailedSearchMeansEmpty ==
    searchFailed =>
        /\ ~existing
        /\ deletes = {}
        /\ deleted = {}
        /\ deleteResult = "none"
        /\ dashboards = << >>
        /\ atStart \subseteq remote
        /\ pc \in {"deploy", "verify", "returned", "exited"}
        /\ searches <= 2
        /\ (Finished => loads = Catalog)

C15_Witness ==
    /\ searchFailed
    /\ Finished
    /\ Cardinality(atStart) >= 2
    /\ atStart \subseteq remote
    /\ loads = Catalog
    /\ accepted # {}

====
